---- MODULE Spec2Model ----
(***************************************************************************)
(* timeknight: the write-ahead log, its replay into the in-memory project  *)
(* map, and the Record interval state machine.                              *)
(*                                                                         *)
(* Strings are sequences of Unicode code points, byte buffers are          *)
(* sequences of 0..255, Option values are sequences of length at most one  *)
(* (<<>> is None, <<x>> is Some(x)).                                        *)
(***************************************************************************)
EXTENDS Integers, Sequences, FiniteSets, TLC

VARIABLES
  lock,      \* the file .lock exists in the data directory
  wal,       \* content of entries.wal, a sequence of bytes
  dbs,       \* per process: the Database value it holds, if any
  result,    \* the last Database call and what it returned
  clock,     \* Local::now().timestamp(), epoch seconds
  clean,     \* every call so far returned Ok
  appended,  \* storage level: the Actions handed to record_action
  replayed,  \* storage level: what replay_actions produced
  codecIn,   \* codec level: the Action to encode
  codecOut,  \* codec level: what from_bytes returned for its encoding
  rec,       \* record level: the Record under test
  cropRes,   \* record level: the last crop call and its outcome
  proj,      \* project level: the Project under test
  addRes,    \* project level: the last add_record call and its outcome
  applyRes   \* project level: the last Action::apply call and its outcome

vars == <<lock, wal, dbs, result, clock, clean,
          appended, replayed, codecIn, codecOut, rec, cropRes,
          proj, addRes, applyRes>>

dbVars == <<lock, wal, dbs, result, clock, clean>>
logVars == <<appended, replayed>>
codecVars == <<codecIn, codecOut>>
recVars == <<rec, cropRes>>
projVars == <<proj, addRes, applyRes>>

None == <<>>
Some(x) == <<x>>

\* F(v), with v evaluated once
With(v, F(_)) == CHOOSE y \in {F(x) : x \in {v}} : TRUE

(***************************************************************************)
(* Bounds                                                                  *)
(***************************************************************************)
MaxEntries == 4
MaxAppends == 2

(***************************************************************************)
(* Values the inputs are drawn from                                        *)
(***************************************************************************)
T0 == 1648417054
TzTest == 14400
TzOld == 0 - 123456

\* T0 + 236 = 0x6240DA0A: its low byte is 10, the newline byte
Instants == {T0, T0 + 1, T0 + 236}
Offsets == {TzTest, TzOld}

Foo == <<70, 111, 111>>
foo == <<102, 111, 111>>
EAcute == <<201>>
Names == {Foo, foo, EAcute}

Procs == {"p1", "p2"}
Paths == {"dir", "missing"}

(***************************************************************************)
(* Strings                                                                 *)
(***************************************************************************)
LowerCp(c) ==
  IF (c >= 65 /\ c <= 90) \/ (c >= 192 /\ c <= 222 /\ c # 215)
  THEN c + 32
  ELSE c

to_lowercase(s) == [i \in 1 .. Len(s) |-> LowerCp(s[i])]

Utf8Cp(c) ==
  IF c < 128 THEN <<c>>
  ELSE IF c < 2048 THEN <<192 + (c \div 64), 128 + (c % 64)>>
  ELSE <<224 + (c \div 4096), 128 + ((c \div 64) % 64), 128 + (c % 64)>>

RECURSIVE as_bytes(_)
as_bytes(s) ==
  IF s = <<>> THEN <<>> ELSE Utf8Cp(Head(s)) \o as_bytes(Tail(s))

IsCont(b) == b >= 128 /\ b <= 191

RECURSIVE from_utf8_lossy(_)
from_utf8_lossy(b) ==
  LET rest(k) == With(SubSeq(b, k, Len(b)), LAMBDA t : from_utf8_lossy(t))
  IN  IF b = <<>> THEN <<>>
      ELSE IF b[1] < 128 THEN <<b[1]>> \o rest(2)
      ELSE IF b[1] >= 194 /\ b[1] <= 223 /\ Len(b) >= 2 /\ IsCont(b[2])
        THEN <<(b[1] - 192) * 64 + (b[2] - 128)>> \o rest(3)
      ELSE IF b[1] >= 224 /\ b[1] <= 239 /\ Len(b) >= 3
              /\ IsCont(b[2]) /\ IsCont(b[3])
        THEN <<(b[1] - 224) * 4096 + (b[2] - 128) * 64 + (b[3] - 128)>>
               \o rest(4)
      ELSE <<65533>> \o rest(2)

ProjectKey_new_exact(name) == name

ProjectKey_new(name) == to_lowercase(name)

(***************************************************************************)
(* Fixed-width little-endian integers (two's complement)                   *)
(***************************************************************************)
RECURSIVE LeNat(_, _)
LeNat(v, n) ==
  IF n = 0 THEN <<>> ELSE <<v % 256>> \o LeNat(v \div 256, n - 1)

Complement(b) == [i \in 1 .. Len(b) |-> 255 - b[i]]

to_le_bytes(v, n) ==
  IF v >= 0 THEN LeNat(v, n) ELSE Complement(LeNat((0 - v) - 1, n))

RECURSIVE NatLe(_)
NatLe(b) ==
  IF b = <<>> THEN 0 ELSE b[1] + 256 * NatLe(Tail(b))

\* Values of i64 beyond 31 bits are all represented by Big (or -Big): they
\* only come out of misaligned log lines and lie beyond every clock value.
Big == 2147483647

Fits(b) == \A i \in 4 .. Len(b) : IF i = 4 THEN b[i] < 128 ELSE b[i] = 0

from_le_bytes_unsigned(b) == IF Fits(b) THEN NatLe(b) ELSE Big

from_le_bytes(b) ==
  IF b[Len(b)] >= 128
    THEN LET c == Complement(b)
         IN  IF Fits(c) THEN (0 - NatLe(c)) - 1 ELSE 0 - Big
    ELSE IF Fits(b) THEN NatLe(b) ELSE Big

(***************************************************************************)
(* Record                                                                  *)
(***************************************************************************)
DateTime_now(ts, tz) == [ts |-> clock, tz |-> tz]

DateTime(ts, tz) == [ts |-> ts, tz |-> tz]

started_on(start) == [start |-> start, end |-> None, billable |-> TRUE]

is_on_going(r) == r.end = None

duration(r, now) ==
  LET end == IF r.end = None THEN now ELSE r.end[1]
      d == end.ts - r.start.ts
  IN  IF d < 0 THEN 0 ELSE d

\* a crop that moves the end of a Record to whatever instant it is given
crop_moved(r, new_end) ==
  [ok |-> TRUE, res |-> IF r.end = None THEN "Ended" ELSE "Cropped",
   rec |-> [r EXCEPT !.end = Some(new_end)]]

crop_any(r, new_end) ==
  [ok |-> TRUE, res |-> "Ended", rec |-> [r EXCEPT !.end = Some(new_end)]]

crop(r, new_end) ==
  IF r.start.ts > new_end.ts
    THEN [ok |-> FALSE, res |-> "NegativeDuration", rec |-> r]
  ELSE IF r.start.ts < new_end.ts
    THEN [ok |-> FALSE, res |-> "NoDuration", rec |-> r]
  ELSE IF r.end = None
    THEN [ok |-> TRUE, res |-> "Ended",
          rec |-> [r EXCEPT !.end = Some(new_end)]]
  ELSE IF new_end.ts < r.end[1].ts
    THEN [ok |-> TRUE, res |-> "Cropped",
          rec |-> [r EXCEPT !.end = Some(new_end)]]
  ELSE [ok |-> TRUE, res |-> "Noop", rec |-> r]

(***************************************************************************)
(* Project                                                                 *)
(***************************************************************************)
Project_new(name) == [name |-> name, records |-> <<>>]

in_flight(p) ==
  IF p.records = <<>> THEN FALSE
  ELSE is_on_going(p.records[Len(p.records)])

add_record_push(p, record) ==
  [ok |-> TRUE, res |-> "Started",
   proj |-> [p EXCEPT !.records = Append(@, record)]]

add_record(p, record) ==
  IF p.records = <<>>
    THEN [ok |-> TRUE, res |-> "Started",
          proj |-> [p EXCEPT !.records = <<record>>]]
  ELSE
    LET n == Len(p.records)
        c == crop(p.records[n], record.start)
    IN  IF c.ok
          THEN [ok |-> TRUE,
                res |-> CASE c.res = "Noop" -> "Started"
                          [] c.res = "Ended" -> "Switched"
                          [] c.res = "Cropped" -> "Cropped",
                proj |-> [p EXCEPT !.records =
                            Append([@ EXCEPT ![n] = c.rec], record)]]
          ELSE [ok |-> FALSE, res |-> c.res, proj |-> p]

\* out = "panic": expect("No record present!")
end_at(p, end) ==
  IF p.records = <<>>
    THEN [out |-> "panic", res |-> "panic", proj |-> p]
  ELSE
    LET n == Len(p.records)
        c == crop(p.records[n], end)
    IN  [out |-> IF c.ok THEN "Ok" ELSE "Err", res |-> c.res,
         proj |-> [p EXCEPT !.records[n] = c.rec]]

(***************************************************************************)
(* Action: wire encoding, decoding, apply                                  *)
(***************************************************************************)
ProjectAdd(name) == [type |-> "ProjectAdd", name |-> name, ts |-> 0, tz |-> 0]
ProjectDel(name) == [type |-> "ProjectDel", name |-> name, ts |-> 0, tz |-> 0]
RecordStart(name, ts, tz) ==
  [type |-> "RecordStart", name |-> name, ts |-> ts, tz |-> tz]
RecordStop(ts, tz) ==
  [type |-> "RecordStop", name |-> <<>>, ts |-> ts, tz |-> tz]

NL == 10

to_bytes(action) ==
  CASE action.type = "ProjectAdd" ->
         <<127>> \o as_bytes(action.name) \o <<NL>>
    [] action.type = "ProjectDel" ->
         <<126>> \o as_bytes(action.name) \o <<NL>>
    [] action.type = "RecordStart" ->
         <<125>> \o to_le_bytes(action.ts, 8) \o to_le_bytes(action.tz, 4)
           \o as_bytes(action.name) \o <<NL>>
    [] action.type = "RecordStop" ->
         <<124>> \o to_le_bytes(action.ts, 8) \o to_le_bytes(action.tz, 4)
           \o <<NL>>

\* out = "panic": an index or a slice out of range; out = "Err": Err(())
from_bytes(data) ==
  LET rest(k) == SubSeq(data, k + 1, Len(data))
      bad(o) == [out |-> o, key |-> None, action |-> ProjectAdd(<<>>)]
  IN  IF Len(data) = 0 THEN bad("panic")
      ELSE IF data[1] = 127
        THEN LET name == from_utf8_lossy(rest(1))
             IN  [out |-> "Ok", key |-> Some(ProjectKey_new(name)),
                  action |-> ProjectAdd(name)]
      ELSE IF data[1] = 126
        THEN LET name == from_utf8_lossy(rest(1))
             IN  [out |-> "Ok", key |-> Some(ProjectKey_new(name)),
                  action |-> ProjectDel(name)]
      ELSE IF data[1] = 125
        THEN IF Len(data) < 13 THEN bad("panic")
             ELSE LET name == from_utf8_lossy(rest(13))
                      ts == from_le_bytes(SubSeq(data, 2, 9))
                      tz == from_le_bytes(SubSeq(data, 10, 13))
                  IN  [out |-> "Ok", key |-> Some(ProjectKey_new(name)),
                       action |-> RecordStart(name, ts, tz)]
      ELSE IF data[1] = 124
        THEN IF Len(data) < 13 THEN bad("panic")
             ELSE LET ts == from_le_bytes(SubSeq(data, 2, 9))
                      tz == from_le_bytes(SubSeq(data, 10, 13))
                  IN  [out |-> "Ok", key |-> None,
                       action |-> RecordStop(ts, tz)]
      ELSE bad("Err")

EmptyMap == [k \in {} |-> Project_new(<<>>)]

MapInsert(projects, key, p) ==
  [k \in DOMAIN projects \cup {key} |-> IF k = key THEN p ELSE projects[k]]

MapRemove_kept(projects, key) == projects

MapRemove(projects, key) ==
  [k \in DOMAIN projects \ {key} |-> projects[k]]

\* FixedOffset::west panics outside (-86400, 86400)
west_in_bounds(tz) == 0 - 86400 < tz /\ tz < 86400

\* entry is the map entry of key; project is the Project the call returns.
\* out = "panic": expect("Replay start failed") / expect("Replay end failed")
apply(action, projects, key) ==
  LET occupied == key \in DOMAIN projects
      fail(o) == [out |-> o, projects |-> projects, project |-> None]
      at(ts, tz) == DateTime(ts, tz)
  IN  CASE action.type \in {"RecordStart", "RecordStop"} /\ occupied
             /\ ~west_in_bounds(action.tz) -> fail("panic")
        [] action.type = "ProjectAdd" ->
             IF occupied THEN fail("SomeDbError")
             ELSE [out |-> "Ok",
                   projects |-> MapInsert(projects, key,
                                          Project_new(action.name)),
                   project |-> Some(Project_new(action.name))]
        [] action.type = "ProjectDel" ->
             IF occupied
               THEN [out |-> "Ok", projects |-> MapRemove(projects, key),
                     project |-> Some(projects[key])]
               ELSE fail("SomeDbError")
        [] action.type = "RecordStart" ->
             IF occupied
               THEN LET r == add_record(projects[key],
                                started_on(at(action.ts, action.tz)))
                    IN  IF r.ok
                          THEN [out |-> "Ok",
                                projects |-> MapInsert(projects, key, r.proj),
                                project |-> Some(r.proj)]
                          ELSE fail("panic")
               ELSE fail("SomeDbError")
        [] action.type = "RecordStop" ->
             IF occupied
               THEN LET r == end_at(projects[key], at(action.ts, action.tz))
                    IN  IF r.out = "Ok"
                          THEN [out |-> "Ok",
                                projects |-> MapInsert(projects, key, r.proj),
                                project |-> Some(r.proj)]
                          ELSE fail("panic")
               ELSE fail("SomeDbError")

(***************************************************************************)
(* FsStorage: lock file, append, replay                                    *)
(***************************************************************************)
is_dir(path) == path = "dir"

FsStorage_new_lock_first(path, lockExists, walOpens) ==
  IF lockExists THEN [out |-> "AlreadyExists", lock |-> TRUE]
  ELSE IF ~is_dir(path) THEN [out |-> "InvalidInput", lock |-> TRUE]
  ELSE IF walOpens THEN [out |-> "Ok", lock |-> TRUE]
  ELSE [out |-> "IoError", lock |-> TRUE]

FsStorage_new_shared(path, lockExists, walOpens) ==
  IF ~is_dir(path) THEN [out |-> "InvalidInput", lock |-> lockExists]
  ELSE IF walOpens THEN [out |-> "Ok", lock |-> TRUE]
  ELSE [out |-> "IoError", lock |-> TRUE]

\* lockExists: .lock is there; walOpens: opening entries.wal succeeds
FsStorage_new(path, lockExists, walOpens) ==
  IF ~is_dir(path) THEN [out |-> "InvalidInput", lock |-> lockExists]
  ELSE IF lockExists THEN [out |-> "AlreadyExists", lock |-> TRUE]
  ELSE IF walOpens THEN [out |-> "Ok", lock |-> TRUE]
  ELSE [out |-> "IoError", lock |-> TRUE]

\* Drop for FsStorage: close() removes the lock file
FsStorage_drop_kept(lockExists) == lockExists

FsStorage_drop(lockExists) == FALSE

\* What write_all does: everything is written, or an error after the first
\* `written` bytes.  File::flush does nothing.
IoOk == [ok |-> TRUE, written |-> 0]
IoFail(k) == [ok |-> FALSE, written |-> k]
IoOutcomes == {IoOk, IoFail(0)}

\* a write at the start of the file instead of its end
record_action_rewound(w, action, io) ==
  LET buffer == to_bytes(action)
  IN  IF io.ok
        THEN [ok |-> TRUE,
              wal |-> buffer \o SubSeq(w, Len(buffer) + 1, Len(w))]
      ELSE [ok |-> FALSE, wal |-> w]

record_action(w, action, io) ==
  LET buffer == to_bytes(action)
  IN  IF io.ok THEN [ok |-> TRUE, wal |-> w \o buffer]
      ELSE [ok |-> FALSE, wal |-> w \o SubSeq(buffer, 1, io.written)]

\* read_until(b'\n'): index of the last byte read when reading from `from`
ReadUntil(w, from) ==
  LET nls == {i \in from .. Len(w) : w[i] = NL}
  IN  IF nls = {} THEN Len(w)
      ELSE CHOOSE i \in nls : \A j \in nls : i <= j

\* ReplayLog::next with the reader at byte `from` (1-based)
ReplayLog_next(w, from) ==
  IF from > Len(w) THEN [some |-> FALSE, from |-> from, item |-> from_bytes(<<>>)]
  ELSE LET last == ReadUntil(w, from)
       IN  [some |-> TRUE, from |-> last + 1,
            item |-> from_bytes(SubSeq(w, from, last - 1))]

\* everything replay_actions yields: the decoded items, and whether the
\* iterator panicked (unwrap of a decode error, or a slice out of range)
RECURSIVE ReplayFrom(_, _)
ReplayFrom(w, from) ==
  With(ReplayLog_next(w, from), LAMBDA n :
    IF ~n.some THEN [out |-> "Ok", items |-> <<>>]
    ELSE IF n.item.out # "Ok" THEN [out |-> "panic", items |-> <<>>]
    ELSE With(ReplayFrom(w, n.from), LAMBDA r :
           [out |-> r.out,
            items |-> <<<<n.item.key, n.item.action>>>> \o r.items]))

replay_actions(w) == ReplayFrom(w, 1)

(***************************************************************************)
(* Database                                                                *)
(***************************************************************************)
Database(projects, last_project) ==
  [projects |-> projects, last_project |-> last_project]

\* a loop body that passes over a keyless entry met without a pointer
LoadOne_skip(d, key, action) ==
  IF key = None /\ d.last_project = None
    THEN [out |-> "Ok", db |-> d]
  ELSE
    LET k == IF key = None THEN d.last_project[1] ELSE key[1]
        last == IF key = None THEN None ELSE d.last_project
    IN  With(apply(action, d.projects, k), LAMBDA a :
          IF a.out # "Ok" THEN [out |-> "panic", db |-> d]
          ELSE [out |-> "Ok",
                db |-> Database(a.projects,
                         IF in_flight(a.project[1])
                           THEN Some(ProjectKey_new(a.project[1].name))
                           ELSE last)])

\* one turn of the loop of load_all, for the item (key, action)
LoadOne(d, key, action) ==
  IF key = None /\ d.last_project = None
    THEN [out |-> "panic", db |-> d]
  ELSE
    LET k == IF key = None THEN d.last_project[1] ELSE key[1]
        last == IF key = None THEN None ELSE d.last_project
    IN  With(apply(action, d.projects, k), LAMBDA a :
          IF a.out # "Ok" THEN [out |-> "panic", db |-> d]
          ELSE [out |-> "Ok",
                db |-> Database(a.projects,
                         IF in_flight(a.project[1])
                           THEN Some(ProjectKey_new(a.project[1].name))
                           ELSE last)])

RECURSIVE LoadFrom(_, _, _)
LoadFrom(d, w, from) ==
  With(ReplayLog_next(w, from), LAMBDA n :
    IF ~n.some THEN [out |-> "Ok", db |-> d]
    ELSE IF n.item.out # "Ok" THEN [out |-> "panic", db |-> d]
    ELSE With(LoadOne(d, n.item.key, n.item.action), LAMBDA r :
           IF r.out # "Ok" THEN r ELSE LoadFrom(r.db, w, n.from)))

load_all(d, w) == LoadFrom(d, w, 1)

\* out: "Ok", an ErrorKind, or "panic"; lock: .lock afterwards
Database_open(path, lockExists, walOpens, w) ==
  LET s == FsStorage_new(path, lockExists, walOpens)
  IN  IF s.out # "Ok"
        THEN [out |-> s.out, db |-> None, lock |-> s.lock,
              iofail |-> s.out = "IoError"]
      ELSE LET l == load_all(Database(EmptyMap, None), w)
           IN  IF l.out = "Ok"
                 THEN [out |-> "Ok", db |-> Some(l.db), lock |-> s.lock,
                       iofail |-> FALSE]
                 ELSE [out |-> "panic", db |-> None,
                       lock |-> FsStorage_drop(s.lock), iofail |-> FALSE]

apply_action_unlogged(w, projects, key, action, io) ==
  LET r == record_action(w, action, io)
      a == apply(action, projects, key)
  IN  [out |-> a.out, projects |-> a.projects, wal |-> r.wal,
       iofail |-> ~r.ok]

\* iofail: the append failed
apply_action(w, projects, key, action, io) ==
  LET r == record_action(w, action, io)
  IN  IF r.ok
        THEN LET a == apply(action, projects, key)
             IN  [out |-> a.out, projects |-> a.projects, wal |-> r.wal,
                  iofail |-> FALSE]
        ELSE [out |-> "SomeDbError", projects |-> projects, wal |-> r.wal,
              iofail |-> TRUE]

add_project_unchecked(d, w, name, io) ==
  LET key == ProjectKey_new(name)
      a == apply_action(w, d.projects, key, ProjectAdd(name), io)
  IN  [out |-> a.out, db |-> [d EXCEPT !.projects = a.projects],
       wal |-> a.wal, iofail |-> a.iofail]

add_project(d, w, name, io) ==
  LET key == ProjectKey_new(name)
  IN  IF key \notin DOMAIN d.projects
        THEN LET a == apply_action(w, d.projects, key, ProjectAdd(name), io)
             IN  [out |-> a.out, db |-> [d EXCEPT !.projects = a.projects],
                  wal |-> a.wal, iofail |-> a.iofail]
        ELSE [out |-> "SomeDbError", db |-> d, wal |-> w, iofail |-> FALSE]

remove_project(d, w, name, io) ==
  LET key == ProjectKey_new(name)
  IN  IF key \in DOMAIN d.projects
        THEN LET a == apply_action(w, d.projects, key, ProjectDel(key), io)
             IN  [out |-> a.out, db |-> [d EXCEPT !.projects = a.projects],
                  wal |-> a.wal, iofail |-> a.iofail]
        ELSE [out |-> "SomeDbError", db |-> d, wal |-> w, iofail |-> FALSE]

\* the order of str: by code points, a prefix first
RECURSIVE StrLess(_, _)
StrLess(a, b) ==
  IF b = <<>> THEN FALSE
  ELSE IF a = <<>> THEN TRUE
  ELSE IF a[1] # b[1] THEN a[1] < b[1]
  ELSE StrLess(Tail(a), Tail(b))

\* sort_by_key is stable: projects of equal sort key stay in key order
RECURSIVE SortByName(_, _)
SortByName(projects, keys) ==
  IF keys = {} THEN <<>>
  ELSE LET sk(k) == to_lowercase(projects[k].name)
           first == CHOOSE k \in keys :
                      \A j \in keys \ {k} :
                        \/ StrLess(sk(k), sk(j))
                        \/ sk(k) = sk(j) /\ StrLess(k, j)
       IN  <<projects[first]>> \o SortByName(projects, keys \ {first})

list_projects(d) == SortByName(d.projects, DOMAIN d.projects)

current_project(d) ==
  IF d.last_project = None THEN None
  ELSE IF d.last_project[1] \in DOMAIN d.projects
    THEN Some(d.projects[d.last_project[1]])
  ELSE None

silent_stop(d, w, now, io) ==
  IF d.last_project = None
    THEN [out |-> "Ok", db |-> d, wal |-> w, iofail |-> FALSE]
  ELSE
    LET key == d.last_project[1]
        taken == [d EXCEPT !.last_project = None]
    IN  IF key \in DOMAIN d.projects
          THEN IF in_flight(d.projects[key])
                 THEN LET a == apply_action(w, d.projects, key,
                                            RecordStop(now.ts, now.tz), io)
                      IN  [out |-> a.out,
                           db |-> [taken EXCEPT !.projects = a.projects],
                           wal |-> a.wal, iofail |-> a.iofail]
                 ELSE [out |-> "Ok", db |-> taken, wal |-> w,
                       iofail |-> FALSE]
          ELSE [out |-> "SomeDbError", db |-> taken, wal |-> w,
                iofail |-> FALSE]

start_on(d, w, name, now, io1, io2) ==
  LET s == silent_stop(d, w, now, io1)
  IN  IF s.out = "Ok"
        THEN LET key == ProjectKey_new(name)
             IN  IF key \in DOMAIN s.db.projects
                   THEN LET a == apply_action(s.wal, s.db.projects, key,
                                   RecordStart(key, now.ts, now.tz), io2)
                        IN  [out |-> a.out,
                             db |-> [s.db EXCEPT !.projects = a.projects],
                             wal |-> a.wal, iofail |-> a.iofail]
                   ELSE [out |-> "SomeDbError", db |-> s.db, wal |-> s.wal,
                         iofail |-> FALSE]
        ELSE s

stop(d, w, now, io) ==
  IF current_project(d) = None
    THEN [out |-> "SomeDbError", db |-> d, wal |-> w, iofail |-> FALSE]
    ELSE silent_stop(d, w, now, io)

(***************************************************************************)
(* The processes that use one data directory                               *)
(***************************************************************************)
\* the last call: which one, its argument, what it returned, and whether
\* a write to the log failed in it
Result(op, arg, out, iofail) ==
  [op |-> op, arg |-> arg, out |-> out, iofail |-> iofail]

\* number of complete lines in the log
WalEntries(w) == Cardinality({i \in 1 .. Len(w) : w[i] = NL})

now == DateTime(clock, TzTest)

\* the outcome r of a call of process p; a panic unwinds main and drops the
\* Database. The log is kept within MaxEntries entries.
Finish(p, op, arg, r) ==
  /\ WalEntries(r.wal) <= MaxEntries
  /\ wal' = r.wal
  /\ result' = Result(op, arg, r.out, r.iofail)
  /\ clean' = (clean /\ r.out = "Ok")
  /\ IF r.out = "panic"
       THEN /\ dbs' = [dbs EXCEPT ![p] = None]
            /\ lock' = FsStorage_drop(lock)
       ELSE /\ dbs' = [dbs EXCEPT ![p] = Some(r.db)]
            /\ lock' = lock
  /\ UNCHANGED <<clock, logVars, codecVars, recVars, projVars>>

CanCall(p) == dbs[p] # None

OpenDb(p) ==
  /\ dbs[p] = None
  /\ \E path \in Paths, walOpens \in BOOLEAN :
       LET r == Database_open(path, lock, walOpens, wal)
       IN  /\ dbs' = [dbs EXCEPT ![p] = r.db]
           /\ lock' = r.lock
           /\ result' = Result("open", IF is_dir(path) THEN <<1>> ELSE <<0>>,
                               r.out, r.iofail)
           /\ clean' = (clean /\ r.out = "Ok")
  /\ UNCHANGED <<wal, clock, logVars, codecVars, recVars, projVars>>

CloseDb(p) ==
  /\ dbs[p] # None
  /\ dbs' = [dbs EXCEPT ![p] = None]
  /\ lock' = FsStorage_drop(lock)
  /\ result' = Result("close", <<>>, "Ok", FALSE)
  /\ UNCHANGED <<wal, clock, clean, logVars, codecVars, recVars, projVars>>

AddProject(p) ==
  /\ CanCall(p)
  /\ \E name \in Names, io \in IoOutcomes :
       Finish(p, "add_project", name,
              add_project(dbs[p][1], wal, name, io))

RemoveProject(p) ==
  /\ CanCall(p)
  /\ \E name \in Names, io \in IoOutcomes :
       Finish(p, "remove_project", name,
              remove_project(dbs[p][1], wal, name, io))

StartOn(p) ==
  /\ CanCall(p)
  /\ \E name \in Names, io1 \in IoOutcomes, io2 \in IoOutcomes :
       Finish(p, "start_on", name,
              start_on(dbs[p][1], wal, name, now, io1, io2))

Stop(p) ==
  /\ CanCall(p)
  /\ \E io \in IoOutcomes :
       Finish(p, "stop", <<>>, stop(dbs[p][1], wal, now, io))

\* the instants at which the processes make their calls
Clocks == {T0, T0 + 1}

Tick ==
  /\ \E t \in Clocks : t > clock /\ clock' = t
  /\ UNCHANGED <<lock, wal, dbs, result, clean, logVars, codecVars, recVars,
                 projVars>>

InitDb ==
  /\ lock = FALSE
  /\ wal = <<>>
  /\ dbs = [p \in Procs |-> None]
  /\ result = Result("none", <<>>, "none", FALSE)
  /\ clock = T0
  /\ clean = TRUE

InitLog == appended = <<>> /\ replayed = None
InitCodec == codecIn = ProjectAdd(<<>>) /\ codecOut = None
InitRec == rec = started_on(DateTime(T0, TzTest)) /\ cropRes = None
InitProj == proj = Project_new(Foo) /\ addRes = None /\ applyRes = None

Init == InitDb /\ InitLog /\ InitCodec /\ InitRec /\ InitProj

Next ==
  \/ \E p \in Procs : OpenDb(p)
  \/ \E p \in Procs : CloseDb(p)
  \/ \E p \in Procs : AddProject(p)
  \/ \E p \in Procs : RemoveProject(p)
  \/ \E p \in Procs : StartOn(p)
  \/ \E p \in Procs : Stop(p)
  \/ Tick

Spec == Init /\ [][Next]_vars

(***************************************************************************)
(* The storage alone: Actions appended with record_action, then replayed   *)
(***************************************************************************)
LogActions ==
  {ProjectAdd(n) : n \in Names} \cup {ProjectDel(n) : n \in Names}
    \cup {RecordStart(n, ts, tz) : n \in Names, ts \in Instants, tz \in Offsets}
    \cup {RecordStop(ts, tz) : ts \in Instants, tz \in Offsets}

LogAppend ==
  /\ Len(appended) < MaxAppends
  /\ \E a \in LogActions :
       /\ wal' = record_action(wal, a, IoOk).wal
       /\ appended' = Append(appended, a)
  /\ replayed' = None
  /\ UNCHANGED <<lock, dbs, result, clock, clean, codecVars, recVars, projVars>>

LogReplay ==
  /\ replayed' = Some(replay_actions(wal))
  /\ UNCHANGED <<lock, wal, dbs, result, clock, clean, appended,
                 codecVars, recVars, projVars>>

NextLog == LogAppend \/ LogReplay

SpecLog == Init /\ [][NextLog]_vars

(***************************************************************************)
(* The codec alone: from_bytes of the encoding without its delimiter       *)
(***************************************************************************)
CodecNames == Names \cup {<<>>, <<70, NL>>, <<8364, 201>>}
CodecTs == Instants \cup {0, 0 - 1}
CodecTz == Offsets \cup {0}

CodecActions ==
  {ProjectAdd(n) : n \in CodecNames} \cup {ProjectDel(n) : n \in CodecNames}
    \cup {RecordStart(n, ts, tz) : n \in CodecNames, ts \in CodecTs, tz \in CodecTz}
    \cup {RecordStop(ts, tz) : ts \in CodecTs, tz \in CodecTz}

InitCodecLevel ==
  /\ InitDb /\ InitLog /\ InitRec /\ InitProj
  /\ codecIn \in CodecActions /\ codecOut = None

Decode ==
  /\ codecOut = None
  /\ LET buffer == to_bytes(codecIn)
     IN  codecOut' = Some(from_bytes(SubSeq(buffer, 1, Len(buffer) - 1)))
  /\ UNCHANGED <<dbVars, logVars, codecIn, recVars, projVars>>

NextCodec == Decode

SpecCodec == InitCodecLevel /\ [][NextCodec]_vars

(***************************************************************************)
(* One Record alone: crop called over and over                             *)
(***************************************************************************)
DateTimes == {DateTime(ts, tz) : ts \in Instants, tz \in Offsets}

InitRecordLevel ==
  /\ InitDb /\ InitLog /\ InitCodec /\ InitProj
  /\ rec \in {started_on(start) : start \in DateTimes}
  /\ cropRes = None

Crop ==
  /\ \E new_end \in DateTimes :
       LET c == crop(rec, new_end)
       IN  /\ rec' = c.rec
           /\ cropRes' = Some([pre |-> rec, new_end |-> new_end,
                               ok |-> c.ok, res |-> c.res])
  /\ UNCHANGED <<dbVars, logVars, codecVars, projVars>>

NextRecord == Crop

SpecRecord == InitRecordLevel /\ [][NextRecord]_vars

(***************************************************************************)
(* One Project alone: add_record and end_at called over and over           *)
(***************************************************************************)
MaxRecords == 3

InitProjectLevel ==
  /\ InitDb /\ InitLog /\ InitCodec /\ InitRec
  /\ proj \in {Project_new(n) : n \in Names}
  /\ addRes = None
  /\ applyRes = None

\* a panic of Action::apply has ended the run of the program
Panicked == IF applyRes = None THEN FALSE ELSE applyRes[1].out = "panic"

AddRecord ==
  /\ ~Panicked
  /\ Len(proj.records) < MaxRecords
  /\ \E start \in DateTimes :
       LET r == add_record(proj, started_on(start))
       IN  /\ proj' = r.proj
           /\ addRes' = Some([pre |-> proj, record |-> started_on(start),
                              ok |-> r.ok, res |-> r.res])
  /\ applyRes' = None
  /\ UNCHANGED <<dbVars, logVars, codecVars, recVars>>

\* a panic of end_at ends the run of the program
EndAt ==
  /\ ~Panicked
  /\ \E end \in DateTimes :
       LET r == end_at(proj, end)
       IN  r.out # "panic" /\ proj' = r.proj
  /\ addRes' = None
  /\ applyRes' = None
  /\ UNCHANGED <<dbVars, logVars, codecVars, recVars>>

NextProject == AddRecord \/ EndAt

SpecProject == InitProjectLevel /\ [][NextProject]_vars

(***************************************************************************)
(* One map entry alone: the Project is built with add_record and end_at,   *)
(* and RecordStop Actions are applied to its entry                         *)
(***************************************************************************)
\* Action::apply of a RecordStop on the occupied entry of proj
ApplyStop ==
  /\ ~Panicked
  /\ \E end \in DateTimes :
       LET key == ProjectKey_new(proj.name)
           action == RecordStop(end.ts, end.tz)
           a == apply(action, MapInsert(EmptyMap, key, proj), key)
       IN  /\ proj' = a.projects[key]
           /\ applyRes' = Some([pre |-> proj, action |-> action,
                                out |-> a.out])
  /\ addRes' = None
  /\ UNCHANGED <<dbVars, logVars, codecVars, recVars>>

NextApply == AddRecord \/ EndAt \/ ApplyStop

SpecApply == InitProjectLevel /\ [][NextApply]_vars

(***************************************************************************)
(* Replay alone: a log is written, then each process opens a Database on   *)
(* a directory of its own that holds this log                              *)
(***************************************************************************)
WriteLog ==
  /\ \A p \in Procs : dbs[p] = None
  /\ LogAppend

FreshOpen(p) ==
  /\ dbs[p] = None
  /\ LET r == Database_open("dir", FALSE, TRUE, wal)
     IN  /\ dbs' = [dbs EXCEPT ![p] = r.db]
         /\ result' = Result("open", <<1>>, r.out, r.iofail)
  /\ UNCHANGED <<lock, wal, clock, clean, logVars, codecVars, recVars,
                 projVars>>

NextReplay ==
  \/ WriteLog
  \/ \E p \in Procs : FreshOpen(p)
  \/ Tick

SpecReplay == Init /\ [][NextReplay]_vars

(***************************************************************************)
(* Replay of longer logs: entries over two projects and two instants are   *)
(* written, then a Database is opened on the log                           *)
(***************************************************************************)
EntryNames == {Foo, EAcute}

EntryActions ==
  {ProjectAdd(n) : n \in EntryNames} \cup {ProjectDel(n) : n \in EntryNames}
    \cup {RecordStart(n, ts, TzTest) : n \in EntryNames, ts \in Clocks}
    \cup {RecordStop(ts, TzTest) : ts \in Clocks}

WriteEntry ==
  /\ \A p \in Procs : dbs[p] = None
  /\ Len(appended) < MaxEntries
  /\ \E a \in EntryActions :
       /\ wal' = record_action(wal, a, IoOk).wal
       /\ appended' = Append(appended, a)
  /\ replayed' = None
  /\ UNCHANGED <<lock, dbs, result, clock, clean, codecVars, recVars, projVars>>

NextEntries == WriteEntry \/ FreshOpen("p1")

SpecEntries == Init /\ [][NextEntries]_vars

(***************************************************************************)
(* A torn log: whole entries are written, then a write_all fails after     *)
(* part of its buffer reached the file (the last write made), and the log  *)
(* is replayed                                                             *)
(***************************************************************************)
WholeEntry ==
  /\ clean
  /\ Len(appended) < MaxAppends
  /\ \E a \in EntryActions :
       /\ wal' = record_action(wal, a, IoOk).wal
       /\ appended' = Append(appended, a)
  /\ replayed' = None
  /\ UNCHANGED <<lock, dbs, result, clock, clean, codecVars, recVars, projVars>>

TornEntry ==
  /\ clean
  /\ \E a \in EntryActions :
       \E k \in 1 .. Len(to_bytes(a)) - 1 :
         wal' = record_action(wal, a, IoFail(k)).wal
  /\ clean' = FALSE
  /\ replayed' = None
  /\ UNCHANGED <<lock, dbs, result, clock, appended, codecVars, recVars,
                 projVars>>

NextTorn == WholeEntry \/ TornEntry \/ LogReplay

SpecTorn == Init /\ [][NextTorn]_vars

(***************************************************************************)
(* Properties of the Database                                              *)
(***************************************************************************)
Keys == {ProjectKey_new(n) : n \in Names}

Holders == {p \in Procs : dbs[p] # None}

\* the (key, Action) pairs a call made at this instant on Database d can log
LiveActions(d) ==
  {<<ProjectKey_new(n), ProjectAdd(n)>> : n \in Names}
    \cup {<<k, ProjectDel(k)>> : k \in Keys}
    \cup {<<k, RecordStart(k, now.ts, now.tz)>> : k \in Keys}
    \cup {<<k, RecordStop(now.ts, now.tz)>> :
            k \in {j \in Keys : d.last_project = Some(j)}}

\* the log w2 is w plus the entries of one or two Actions, and the map m2 is
\* the map m with exactly these Actions applied
Logged(d, w, m, w2, m2) ==
  \E c \in LiveActions(d) :
    With(apply(c[2], m, c[1]), LAMBDA a :
      /\ a.out = "Ok"
      /\ \/ w2 = w \o to_bytes(c[2]) /\ m2 = a.projects
         \/ \E e \in LiveActions(d) :
              /\ w2 = w \o to_bytes(c[2]) \o to_bytes(e[2])
              /\ With(apply(e[2], a.projects, e[1]), LAMBDA b :
                   b.out = "Ok" /\ b.projects = m2))

WriteAheadStep(p) ==
  (/\ dbs[p] # None
   /\ dbs'[p] # None
   /\ dbs'[p][1].projects # dbs[p][1].projects)
    => Logged(dbs[p][1], wal, dbs[p][1].projects, wal', dbs'[p][1].projects)

\* C1: whenever a step changes the project map of an open Database, the log
\* has grown in that step by the encodings of the Actions whose application
\* gives the new map: the map is never ahead of the log.
C1_WriteAhead == [][\A p \in Procs : WriteAheadStep(p)]_vars

C1_Witness ==
  /\ result = Result("start_on", foo, "Ok", FALSE)
  /\ \E p \in Procs :
       /\ dbs[p] # None
       /\ foo \in DOMAIN dbs[p][1].projects
       /\ in_flight(dbs[p][1].projects[foo])
       /\ WalEntries(wal) >= 2

Mutators == {"add_project", "remove_project", "start_on", "stop"}

\* a step that is a call of one of ops: only a call changes lock, wal, dbs
\* or result, and result then names the call
Called(ops) ==
  result'.op \in ops /\ <<lock, wal, dbs, result>>' # <<lock, wal, dbs, result>>

\* C2: a call of add_project, remove_project, start_on or stop in which an
\* append to the log fails returns an error and leaves the project map and
\* the active-project pointer of the Database as they were before the call.
C2_FailedAppendLeavesState ==
  [][\A p \in Procs :
       (dbs[p] # None /\ Called(Mutators) /\ result'.iofail)
         => /\ result'.out = "SomeDbError"
            /\ dbs'[p] = dbs[p]]_vars

\* C3: after only successful operations, what close followed by open
\* rebuilds from the log is the Database held in memory: the same project
\* map and the same active-project pointer.
C3_ReopenRebuildsState ==
  clean =>
    \A p \in Procs :
      dbs[p] # None =>
        load_all(Database(EmptyMap, None), wal) =
          [out |-> "Ok", db |-> dbs[p][1]]

OneOpenRecord(pr) ==
  Len(pr.records) = 1 /\ is_on_going(pr.records[1])

OneClosedRecord(pr) ==
  Len(pr.records) = 1 /\ ~is_on_going(pr.records[1])

\* C4: with projects A and B and nothing active, start_on(A) directly
\* followed by start_on(B) succeeds and leaves A with exactly one closed
\* Record, B with exactly one open Record and current_project() = B.
C4_SwitchClosesPrevious ==
  [][\A p \in Procs : \A A \in Keys : \A B \in Keys \ {A} :
       (/\ dbs[p] # None
        /\ DOMAIN dbs[p][1].projects = {A, B}
        /\ result.op = "start_on" /\ result.out = "Ok"
        /\ ProjectKey_new(result.arg) = A
        /\ OneOpenRecord(dbs[p][1].projects[A])
        /\ dbs[p][1].projects[B].records = <<>>
        /\ Called({"start_on"})
        /\ ProjectKey_new(result'.arg) = B
        /\ ~result'.iofail)
         => /\ result'.out = "Ok"
            /\ dbs'[p] # None
            /\ DOMAIN dbs'[p][1].projects = {A, B}
            /\ OneClosedRecord(dbs'[p][1].projects[A])
            /\ OneOpenRecord(dbs'[p][1].projects[B])
            /\ current_project(dbs'[p][1]) = Some(dbs'[p][1].projects[B])]_vars

\* C5: after add_project("Foo") and start_on("foo"), a stop() at a later
\* instant succeeds and leaves project Foo with exactly one Record, closed,
\* whose duration is the time between the start_on and the stop.
C5_StartThenStop ==
  [][\A p \in Procs :
       (/\ dbs[p] # None
        /\ result = Result("start_on", foo, "Ok", FALSE)
        /\ foo \in DOMAIN dbs[p][1].projects
        /\ dbs[p][1].projects[foo].name = Foo
        /\ OneOpenRecord(dbs[p][1].projects[foo])
        /\ clock > dbs[p][1].projects[foo].records[1].start.ts
        /\ Called({"stop"})
        /\ ~result'.iofail)
         => /\ result'.out = "Ok"
            /\ dbs'[p] # None
            /\ foo \in DOMAIN dbs'[p][1].projects
            /\ OneClosedRecord(dbs'[p][1].projects[foo])
            /\ duration(dbs'[p][1].projects[foo].records[1], now) =
                 clock - dbs[p][1].projects[foo].records[1].start.ts]_vars

\* C6: at most one process holds the directory open, and while one does,
\* every other open of the directory fails with AlreadyExists, the lock file
\* stays and the holder stays open.
C6_ExclusiveLock ==
  [][/\ Cardinality(Holders') <= 1
     /\ Holders' # {} => lock'
     /\ (Holders # {} /\ Called({"open"}) /\ result'.arg = <<1>>)
          => /\ result'.out = "AlreadyExists"
             /\ lock'
             /\ dbs' = dbs]_vars

C6_Witness ==
  /\ result = Result("open", <<1>>, "AlreadyExists", FALSE)
  /\ Holders # {}
  /\ lock
  /\ WalEntries(wal) >= 1

(***************************************************************************)
(* Properties of the log and of the codec                                  *)
(***************************************************************************)
ExpectedKey(action) ==
  IF action.type = "RecordStop" THEN None
  ELSE Some(to_lowercase(action.name))

\* C7: replay of a log to which Actions were appended yields exactly these
\* Actions with their keys, in append order, one pair per appended entry.
C7_ReplayYieldsAppended ==
  replayed # None =>
    replayed[1] =
      [out |-> "Ok",
       items |-> [i \in 1 .. Len(appended) |->
                    <<ExpectedKey(appended[i]), appended[i]>>]]

\* C8: from_bytes of the encoding of an Action, without the trailing
\* newline, returns the same Action and the expected key: the lower-cased
\* name, or no key for RecordStop.
C8_RoundTrip ==
  codecOut # None =>
    codecOut[1] =
      [out |-> "Ok", key |-> ExpectedKey(codecIn), action |-> codecIn]

C8_Witness ==
  /\ codecOut # None
  /\ codecOut[1].out = "Ok"
  /\ codecIn.type = "RecordStart"
  /\ codecIn.tz < 0
  /\ codecIn.name = <<8364, 201>>
  /\ codecOut[1].key = Some(<<8364, 233>>)

(***************************************************************************)
(* Properties of Record::crop                                              *)
(***************************************************************************)
\* C9: crop(E) on an open Record with start S < E returns Ended, the Record
\* is then closed with end E and its duration is E - S.
C9_CropClosesOpenRecord ==
  (/\ cropRes # None
   /\ is_on_going(cropRes[1].pre)
   /\ cropRes[1].new_end.ts > cropRes[1].pre.start.ts)
    => /\ cropRes[1].ok
       /\ cropRes[1].res = "Ended"
       /\ rec.end = Some(cropRes[1].new_end)
       /\ duration(rec, DateTime(T0, TzTest)) =
            cropRes[1].new_end.ts - cropRes[1].pre.start.ts

\* C10: crop(t) on a Record, open or closed, fails with NoDuration when t
\* is the Record's start and with NegativeDuration when t is before it.
C10_CropRejectsNonPositive ==
  cropRes # None =>
    /\ cropRes[1].new_end.ts = cropRes[1].pre.start.ts
         => ~cropRes[1].ok /\ cropRes[1].res = "NoDuration"
    /\ cropRes[1].new_end.ts < cropRes[1].pre.start.ts
         => ~cropRes[1].ok /\ cropRes[1].res = "NegativeDuration"

\* C11: crop(E2) on a closed Record with start S and end E returns Cropped
\* and sets the end to E2 when S < E2 < E, and returns Noop and leaves the
\* Record as it was when E2 >= E (E2 later than S).
C11_CropOnClosedRecord ==
  (cropRes # None /\ ~is_on_going(cropRes[1].pre)) =>
    LET S == cropRes[1].pre.start.ts
        E == cropRes[1].pre.end[1].ts
        E2 == cropRes[1].new_end.ts
    IN  /\ (S < E2 /\ E2 < E)
             => /\ cropRes[1].ok
                /\ cropRes[1].res = "Cropped"
                /\ rec.end = Some(cropRes[1].new_end)
        /\ (S < E2 /\ E2 >= E)
             => /\ cropRes[1].ok
                /\ cropRes[1].res = "Noop"
                /\ rec = cropRes[1].pre

(***************************************************************************)
(* Properties of Project::add_record                                       *)
(***************************************************************************)
\* the trailing Record of the Project the last add_record was called on
Trailing == addRes[1].pre.records[Len(addRes[1].pre.records)]

\* the records after an add_record that set the trailing Record's end to
\* the new Record's start and appended the new Record
ClosedAtNewStart ==
  LET pre == addRes[1].pre.records
      n == Len(pre)
  IN  Append([pre EXCEPT ![n].end = Some(addRes[1].record.start)],
             addRes[1].record)

\* C12: add_record returns Started and appends when the Project had no
\* Record; with an open trailing Record it ends that Record at the new start,
\* appends and returns Switched; with a closed trailing Record whose end is
\* later than the new start it shrinks the end to the new start, appends and
\* returns Cropped.
C12_AddRecordOutcome ==
  addRes # None =>
    /\ addRes[1].pre.records = <<>>
         => /\ addRes[1].ok /\ addRes[1].res = "Started"
            /\ proj.records = <<addRes[1].record>>
    /\ (/\ addRes[1].pre.records # <<>>
        /\ is_on_going(Trailing)
        /\ Trailing.start.ts < addRes[1].record.start.ts)
         => /\ addRes[1].ok /\ addRes[1].res = "Switched"
            /\ proj.records = ClosedAtNewStart
    /\ (/\ addRes[1].pre.records # <<>>
        /\ ~is_on_going(Trailing)
        /\ Trailing.start.ts < addRes[1].record.start.ts
        /\ addRes[1].record.start.ts < Trailing.end[1].ts)
         => /\ addRes[1].ok /\ addRes[1].res = "Cropped"
            /\ proj.records = ClosedAtNewStart

\* C13: add_record on a Project whose trailing Record is closed with an end
\* no later than the new Record's start appends the new Record and returns
\* Switched.
C13_AddRecordAfterClosed ==
  (/\ addRes # None
   /\ addRes[1].pre.records # <<>>
   /\ ~is_on_going(Trailing)
   /\ Trailing.end[1].ts <= addRes[1].record.start.ts)
    => /\ addRes[1].ok /\ addRes[1].res = "Switched"
       /\ proj.records = Append(addRes[1].pre.records, addRes[1].record)

(***************************************************************************)
(* Further properties of the Database                                      *)
(***************************************************************************)
NothingInFlight(d) ==
  \A k \in DOMAIN d.projects : ~in_flight(d.projects[k])

\* C14: stop() on a Database in which no project has an open Record returns
\* an error, appends nothing to the log and leaves the project map as it
\* was.
C14_StopWithNothingRunning ==
  [][\A p \in Procs :
       (/\ dbs[p] # None
        /\ NothingInFlight(dbs[p][1])
        /\ Called({"stop"}))
         => /\ result'.out = "SomeDbError"
            /\ wal' = wal
            /\ dbs'[p] # None
            /\ dbs'[p][1].projects = dbs[p][1].projects]_vars

\* C15: start_on on an existing project succeeds whenever no project has an
\* open Record, also after the active project was removed and after a
\* reopen of a log in which the active project was deleted.
C15_StartOnWhenIdle ==
  [][\A p \in Procs :
       (/\ dbs[p] # None
        /\ NothingInFlight(dbs[p][1])
        /\ Called({"start_on"})
        /\ ProjectKey_new(result'.arg) \in DOMAIN dbs[p][1].projects
        /\ ~result'.iofail)
         => result'.out = "Ok"]_vars

\* C16: add_project on a name whose key exists, and remove_project on a
\* name whose key is absent, return an error, append nothing to the log and
\* leave the Database as it was.
C16_DuplicateAddMissingRemove ==
  [][\A p \in Procs :
       (/\ dbs[p] # None
        /\ \/ /\ Called({"add_project"})
              /\ ProjectKey_new(result'.arg) \in DOMAIN dbs[p][1].projects
           \/ /\ Called({"remove_project"})
              /\ ProjectKey_new(result'.arg) \notin DOMAIN dbs[p][1].projects)
         => /\ result'.out = "SomeDbError"
            /\ wal' = wal
            /\ dbs'[p] = dbs[p]]_vars

C16_Witness ==
  /\ result = Result("add_project", foo, "SomeDbError", FALSE)
  /\ \E p \in Procs :
       /\ dbs[p] # None
       /\ foo \in DOMAIN dbs[p][1].projects
       /\ dbs[p][1].projects[foo].name = Foo
       /\ wal = to_bytes(ProjectAdd(Foo))

\* the keys that the entries of the log add and delete, in log order
RECURSIVE KeysOf(_, _)
KeysOf(items, n) ==
  IF n = 0 THEN [present |-> {}, removed |-> {}]
  ELSE LET before == KeysOf(items, n - 1)
           key == items[n][1]
           action == items[n][2]
       IN  CASE action.type = "ProjectAdd" ->
                  [present |-> before.present \cup {key[1]},
                   removed |-> before.removed \ {key[1]}]
             [] action.type = "ProjectDel" ->
                  [present |-> before.present \ {key[1]},
                   removed |-> before.removed \cup {key[1]}]
             [] OTHER -> before

\* the keys removed by the last successful remove_project on them and not
\* added again since (every successful call has its entry in the log)
RemovedKeys(w) ==
  LET r == replay_actions(w) IN KeysOf(r.items, Len(r.items)).removed

\* C17: once remove_project on a key succeeded, and until the key is added
\* again, no Database open on the directory, in the same session or after a
\* reopen, lists a project of that key or returns one as current_project().
C17_RemovedStaysGone ==
  \A p \in Procs :
    dbs[p] # None =>
      \A k \in RemovedKeys(wal) :
        /\ \A i \in 1 .. Len(list_projects(dbs[p][1])) :
             ProjectKey_new(list_projects(dbs[p][1])[i].name) # k
        /\ \/ current_project(dbs[p][1]) = None
           \/ ProjectKey_new(current_project(dbs[p][1])[1].name) # k

C17_Witness ==
  /\ result = Result("open", <<1>>, "Ok", FALSE)
  /\ foo \in RemovedKeys(wal)
  /\ \E p \in Procs :
       /\ dbs[p] # None
       /\ dbs[p][1].last_project = Some(foo)
       /\ Len(list_projects(dbs[p][1])) = 1

\* the keys of the projects of d whose display name differs from name at
\* most in letter case
SameProject(d, name) ==
  {j \in DOMAIN d.projects :
     to_lowercase(d.projects[j].name) = to_lowercase(name)}

OneProjectPerName(d) ==
  \A j \in DOMAIN d.projects :
    \A k \in DOMAIN d.projects :
      to_lowercase(d.projects[j].name) = to_lowercase(d.projects[k].name)
        => j = k

CaseStep(p) ==
  LET d == dbs[p][1]
      e == dbs'[p][1]
      same == SameProject(d, result'.arg)
  IN  (/\ dbs[p] # None
       /\ Called({"add_project", "start_on", "remove_project"})
       /\ same # {}
       /\ ~result'.iofail)
        => /\ result'.op = "add_project"
                => result'.out = "SomeDbError" /\ dbs'[p] = dbs[p]
           /\ result'.op = "remove_project"
                => /\ result'.out = "Ok"
                   /\ dbs'[p] # None
                   /\ DOMAIN e.projects = DOMAIN d.projects \ same
                   /\ \A j \in DOMAIN e.projects :
                        e.projects[j] = d.projects[j]
           /\ (result'.op = "start_on" /\ result'.out = "Ok")
                => /\ dbs'[p] # None
                   /\ DOMAIN e.projects = DOMAIN d.projects
                   /\ \A j \in same :
                        /\ e.projects[j].name = d.projects[j].name
                        /\ Len(e.projects[j].records) =
                             Len(d.projects[j].records) + 1
                   /\ \A j \in DOMAIN d.projects \ same :
                        /\ e.projects[j].name = d.projects[j].name
                        /\ Len(e.projects[j].records) =
                             Len(d.projects[j].records)

\* C18: a project is identified by its lower-cased name: no Database holds
\* two projects whose names differ only in case; add_project under a name
\* that differs from an existing one only in case fails; remove_project and
\* start_on under such a name remove, or add a Record to, that one project,
\* whose display name stays as created.
C18_CaseInsensitiveIdentity ==
  [][\A p \in Procs :
       /\ dbs'[p] # None => OneProjectPerName(dbs'[p][1])
       /\ CaseStep(p)]_vars

C18_Witness ==
  /\ result = Result("start_on", foo, "Ok", FALSE)
  /\ \E p \in Procs :
       /\ dbs[p] # None
       /\ DOMAIN dbs[p][1].projects = {foo}
       /\ dbs[p][1].projects[foo].name = Foo
       /\ Len(dbs[p][1].projects[foo].records) = 2

C21_NotADirectory ==
  [][(Called({"open"}) /\ result'.arg = <<0>>)
       => /\ result'.out = "InvalidInput"
          /\ lock' = lock
          /\ wal' = wal
          /\ dbs' = dbs]_vars

C21_Witness ==
  /\ result = Result("open", <<0>>, "InvalidInput", FALSE)
  /\ ~lock
  /\ wal = <<>>
  /\ Holders = {}

\* C22: whatever calls of add_project, remove_project, start_on and stop
\* wrote the log, a Database::open on the directory replays it without a
\* panic.
C22_LogIsReplayable ==
  load_all(Database(EmptyMap, None), wal).out = "Ok"

\* C23: in every open Database current_project() returns a project exactly
\* when a project is in flight: the project it returns has its trailing
\* Record open, and it returns none only when no project is in flight.
C23_CurrentProjectIsInFlight ==
  \A p \in Procs :
    dbs[p] # None =>
      LET c == current_project(dbs[p][1])
      IN  /\ c # None => in_flight(c[1])
          /\ c = None => NothingInFlight(dbs[p][1])

\* the open Records of Database d, each as <<key, index>>
OpenRecords(d) ==
  UNION {{<<k, i>> : i \in {j \in 1 .. Len(d.projects[k].records) :
                             is_on_going(d.projects[k].records[j])}} :
         k \in DOMAIN d.projects}

\* C24: in every open Database at most one Record over all projects is
\* open.
C24_AtMostOneOpenRecord ==
  \A p \in Procs :
    dbs[p] # None => Cardinality(OpenRecords(dbs[p][1])) <= 1

(***************************************************************************)
(* Invariants of Record and Project                                        *)
(***************************************************************************)
\* C25: every closed Record has its end strictly later than its start.
C25_ClosedRecordHasDuration ==
  rec.end # None => rec.end[1].ts > rec.start.ts

\* C26: in every Project state only the last Record may be open; every
\* earlier Record is closed.
C26_OnlyLastRecordOpen ==
  \A i \in 1 .. Len(proj.records) - 1 : ~is_on_going(proj.records[i])

C26_Witness ==
  /\ Len(proj.records) = 3
  /\ is_on_going(proj.records[3])
  /\ addRes # None
  /\ addRes[1].res = "Switched"

\* C27: in every Project state consecutive Records r, s are in start order
\* and do not overlap: r.start <= s.start and r ends no later than s.start.
C27_RecordsOrderedDisjoint ==
  \A i \in 1 .. Len(proj.records) - 1 :
    LET r == proj.records[i]
        s == proj.records[i + 1]
    IN  /\ r.start.ts <= s.start.ts
        /\ r.end # None
        /\ r.end[1].ts <= s.start.ts

C27_Witness ==
  /\ Len(proj.records) = 2
  /\ proj.records[1].end = Some(proj.records[2].start)
  /\ addRes # None
  /\ addRes[1].ok
  /\ addRes[1].record.start.ts = T0 + 1

(***************************************************************************)
(* Error handling of the Database                                          *)
(***************************************************************************)
\* crop at the present instant fails on the trailing Record of project k
CropFails(d, k) ==
  /\ k \in DOMAIN d.projects
  /\ d.projects[k].records # <<>>
  /\ ~crop(d.projects[k].records[Len(d.projects[k].records)], now).ok

\* C28: a start_on or stop whose instant violates the interval rule of the
\* Record it has to close returns an error to the caller; the process does
\* not panic and the Database stays open.
C28_IntervalErrorIsReturned ==
  [][\A p \in Procs :
       (/\ dbs[p] # None
        /\ \/ /\ Called({"start_on"})
              /\ CropFails(dbs[p][1], ProjectKey_new(result'.arg))
           \/ /\ Called({"stop"})
              /\ dbs[p][1].last_project # None
              /\ CropFails(dbs[p][1], dbs[p][1].last_project[1]))
         => /\ result'.out # "panic"
            /\ dbs'[p] # None]_vars

\* C29: start_on naming a project that does not exist fails without any
\* effect: the log gets no entry, every Record of the Database (the open one
\* of the active project included) is as before, and so is current_project().
C29_StartOnMissingIsAtomic ==
  [][\A p \in Procs :
       (/\ dbs[p] # None
        /\ Called({"start_on"})
        /\ ProjectKey_new(result'.arg) \notin DOMAIN dbs[p][1].projects)
         => /\ result'.out = "SomeDbError"
            /\ wal' = wal
            /\ dbs'[p] # None
            /\ dbs'[p][1].projects = dbs[p][1].projects
            /\ current_project(dbs'[p][1]) = current_project(dbs[p][1])]_vars

(***************************************************************************)
(* Replay of a RecordStop that nothing precedes                            *)
(***************************************************************************)
\* the log that record_action builds from a sequence of Actions
RECURSIVE LogOf(_)
LogOf(as) ==
  IF as = <<>> THEN <<>>
  ELSE record_action(LogOf(SubSeq(as, 1, Len(as) - 1)), as[Len(as)], IoOk).wal

\* entry i is a RecordStop, the entries before it replay, and they leave no
\* project in flight
StaleStop(i) ==
  /\ appended[i].type = "RecordStop"
  /\ With(load_all(Database(EmptyMap, None), LogOf(SubSeq(appended, 1, i - 1))),
       LAMBDA l : l.out = "Ok" /\ NothingInFlight(l.db))

\* C30: when the log holds a RecordStop at a point where replay has left no
\* project in flight, Database::open on that log panics: no Database is
\* returned, so the entry is neither skipped nor applied.
C30_StaleStopIsFatal ==
  (/\ \E i \in 1 .. Len(appended) : StaleStop(i)
   /\ wal = LogOf(appended)
   /\ result.op = "open")
    => /\ result.out = "panic"
       /\ \A p \in Procs : dbs[p] = None

\* the stale RecordStop follows the removal of the project that was in
\* flight: the pointer still names it
C30_Witness ==
  /\ Len(appended) = 4
  /\ appended[3].type = "ProjectDel"
  /\ StaleStop(4)
  /\ load_all(Database(EmptyMap, None), LogOf(SubSeq(appended, 1, 3))).db.last_project # None
  /\ result = Result("open", <<1>>, "panic", FALSE)

(***************************************************************************)
(* Further properties of Action::apply, Project and Record                 *)
(***************************************************************************)
\* C31: a RecordStop applied to the entry of a Project that is not in flight
\* (no Record, or a closed trailing Record) does not succeed and leaves the
\* Project as it was.
C31_StopNeedsOpenRecord ==
  (applyRes # None /\ ~in_flight(applyRes[1].pre))
    => /\ applyRes[1].out # "Ok"
       /\ proj = applyRes[1].pre

\* C32: an add_record whose Record starts at, or before, the start of the
\* trailing Record fails with NoDuration, respectively NegativeDuration,
\* and leaves the Records of the Project as they were.
C32_AddRecordRejects ==
  (/\ addRes # None
   /\ addRes[1].pre.records # <<>>
   /\ addRes[1].record.start.ts <= Trailing.start.ts)
    => /\ ~addRes[1].ok
       /\ addRes[1].res = IF addRes[1].record.start.ts = Trailing.start.ts
                            THEN "NoDuration" ELSE "NegativeDuration"
       /\ proj = addRes[1].pre

\* C33: over any sequence of crop calls a closed Record stays closed, its
\* end never moves later, its end never lies before its start, and its
\* start never changes.
C33_RecordClosesOnce ==
  [][/\ rec'.start = rec.start
     /\ rec.end # None
          => /\ rec'.end # None
             /\ rec'.end[1].ts <= rec.end[1].ts
     /\ rec'.end # None => rec'.end[1].ts >= rec'.start.ts]_vars

\* crop was called on a Record that had been closed before, with an instant
\* other than its end
C33_Witness ==
  /\ cropRes # None
  /\ cropRes[1].pre.end # None
  /\ cropRes[1].new_end.ts # cropRes[1].pre.end[1].ts
  /\ rec = cropRes[1].pre

(***************************************************************************)
(* Further properties of the storage                                       *)
(***************************************************************************)
\* C34: an open that fails after it created the lock file (the log file
\* cannot be opened, or replay fails) removes the lock file again.
C34_FailedOpenReleasesLock ==
  [][(/\ Called({"open"})
      /\ ~lock
      /\ result'.arg = <<1>>
      /\ result'.out # "Ok")
       => ~lock']_vars

\* C35: when the log ends with bytes that no newline terminates, replay
\* yields the entries of the complete lines and nothing for those bytes.
C35_NoEntryForPartialLine ==
  (replayed # None /\ ~clean)
    => replayed[1] = replay_actions(LogOf(appended))

IsPrefix(a, b) == Len(a) <= Len(b) /\ SubSeq(b, 1, Len(a)) = a

\* C36: whatever a process does (open with its replay, close, any Database
\* operation, failed or not), the log before the step is a prefix of the
\* log after it.
C36_LogOnlyGrows ==
  [][IsPrefix(wal, wal')]_vars

\* a stop has appended to a log that a reopened Database had replayed (only
\* replay sets the pointer a successful stop needs)
C36_Witness ==
  /\ WalEntries(wal) = MaxEntries
  /\ result = Result("stop", <<>>, "Ok", FALSE)
  /\ \E p \in Procs : dbs[p] # None

====
